---- MODULE Spec2Model ----
(***************************************************************************)
(* A model of the M3 market matcher (src/business/matcher.go).             *)
(*                                                                         *)
(* The engine is one loop goroutine (start/run), the Go ticker that feeds  *)
(* it, and the callers of Stop.  A cycle of the loop is getBooks, then     *)
(* arbitrage (one step per iteration of its inner loop), then aggregation  *)
(* and logging.  Order.Rate and the Book type live in packages whose       *)
(* source is not part of src/; they are modelled from the specification.   *)
(***************************************************************************)
EXTENDS Integers, Sequences, FiniteSets, TLC

\* ------------------------------------------------------------------ bounds

\* most orders the market returns in one call of Orders()
MaxOrders == 2
\* greatest balance Atomic.Balance reports
MaxBalance == 2
\* most timer ticks counted while one cycle runs
MaxTicks == 3

\* capacity of the channel ticker.C (Go runtime: time.NewTicker)
TickerCap == 1

Tokens == {"A", "B"}
Amounts == {0, 1, 2}

\* ------------------------------------------------------------- data model

Order(bt, st, ba, sa) ==
  [BuyToken |-> bt, SellToken |-> st, BuyAmount |-> ba, SellAmount |-> sa]

Orders ==
  [BuyToken : Tokens, SellToken : Tokens, BuyAmount : Amounts, SellAmount : Amounts]

NoOrder == Order("-", "-", 0, 0)

RECURSIVE SeqsUpTo(_, _)
SeqsUpTo(S, n) ==
  IF n = 0 THEN {<<>>}
  ELSE LET shorter == SeqsUpTo(S, n - 1)
       IN shorter \cup {Append(s, x) : s \in {t \in shorter : Len(t) = n - 1}, x \in S}

\* every order list the market may hold, within the bounds
Venues == SeqsUpTo(Orders, MaxOrders)

\* Order.Rate().Cmp: rate = SellAmount / BuyAmount, compared as fractions by
\* cross-multiplication.  For an order with BuyAmount = 0 the rate is not a
\* number: the comparison then ranks a rate x/0 with x > 0 above every finite
\* rate and 0/0 equal to every rate.
RateCmp(x, y) ==
  LET l == x.SellAmount * y.BuyAmount
      r == y.SellAmount * x.BuyAmount
  IN IF l < r THEN -1 ELSE IF l > r THEN 1 ELSE 0

NewBook(base, quote) == [Base |-> base, Quote |-> quote, bids |-> <<>>, asks |-> <<>>]

\* InsertBid without the ordering: a new bid goes to the end
InsertBidLast(s, x) == Append(s, x)

\* bids are kept best first: a new bid goes before the first bid of a lower rate
RECURSIVE InsertBid(_, _)
InsertBid(s, x) ==
  IF s = <<>> THEN <<x>>
  ELSE IF RateCmp(x, Head(s)) > 0 THEN <<x>> \o s
  ELSE <<Head(s)>> \o InsertBid(Tail(s), x)

\* asks are kept best first: a new ask goes before the first ask of a higher rate
RECURSIVE InsertAsk(_, _)
InsertAsk(s, x) ==
  IF s = <<>> THEN <<x>>
  ELSE IF RateCmp(x, Head(s)) < 0 THEN <<x>> \o s
  ELSE <<Head(s)>> \o InsertAsk(Tail(s), x)

\* Book.AddBid
AddBid(book, order) == [book EXCEPT !.bids = InsertBid(@, order)]
\* Book.AddAsk
AddAsk(book, order) == [book EXCEPT !.asks = InsertAsk(@, order)]
\* Book.HighestBid: the best bid, removed from the book by TakeBid
HighestBid(book) == Head(book.bids)
TakeBid(book) == [book EXCEPT !.bids = Tail(@)]
\* Book.LowestAsk: the best ask, removed from the book by TakeAsk
LowestAsk(book) == Head(book.asks)
TakeAsk(book) == [book EXCEPT !.asks = Tail(@)]

\* ---------------------------------------------------------------- getBooks

\* the map key BuyToken.Hex() + SellToken.Hex(): Hex() has a fixed width, so
\* the concatenation is the ordered pair of the two tokens
PairKey(buy, sell) == <<buy, sell>>

\* bookSet is the map of getBooks, kept as the sequence of its entries in the
\* order they were created; an entry's key is the key it was registered under
BookKey(book) == PairKey(book.Base, book.Quote)
Lookup(bookSet, key) == {i \in DOMAIN bookSet : BookKey(bookSet[i]) = key}

\* PlaceOrder without the lookup of the inverse pair: an order of the
\* opposite orientation opens a book of its own
PlaceOrderNoInverse(bookSet, order) ==
  LET bidPair == PairKey(order.BuyToken, order.SellToken)
  IN IF Lookup(bookSet, bidPair) # {}
       THEN LET i == CHOOSE j \in Lookup(bookSet, bidPair) : TRUE
            IN [bookSet EXCEPT ![i] = AddBid(@, order)]
     ELSE Append(bookSet, AddBid(NewBook(order.BuyToken, order.SellToken), order))

\* PlaceOrder with the two sides swapped for a book found under the order's
\* own pair: the order joins the asks of a book whose bids it belongs to
PlaceOrderSwapped(bookSet, order) ==
  LET bidPair == PairKey(order.BuyToken, order.SellToken)
      askPair == PairKey(order.SellToken, order.BuyToken)
  IN IF Lookup(bookSet, bidPair) # {}
       THEN LET i == CHOOSE j \in Lookup(bookSet, bidPair) : TRUE
            IN [bookSet EXCEPT ![i] = AddAsk(@, order)]
     ELSE IF Lookup(bookSet, askPair) # {}
       THEN LET i == CHOOSE j \in Lookup(bookSet, askPair) : TRUE
            IN [bookSet EXCEPT ![i] = AddAsk(@, order)]
     ELSE Append(bookSet, AddBid(NewBook(order.BuyToken, order.SellToken), order))

\* one pass of the loop over the orders (matcher.go 189-216)
PlaceOrder(bookSet, order) ==
  LET bidPair == PairKey(order.BuyToken, order.SellToken)
      askPair == PairKey(order.SellToken, order.BuyToken)
  IN IF Lookup(bookSet, bidPair) # {}
       THEN LET i == CHOOSE j \in Lookup(bookSet, bidPair) : TRUE
            IN [bookSet EXCEPT ![i] = AddBid(@, order)]
     ELSE IF Lookup(bookSet, askPair) # {}
       THEN LET i == CHOOSE j \in Lookup(bookSet, askPair) : TRUE
            IN [bookSet EXCEPT ![i] = AddAsk(@, order)]
     ELSE Append(bookSet, AddBid(NewBook(order.BuyToken, order.SellToken), order))

RECURSIVE PlaceAll(_, _)
PlaceAll(bookSet, orders) ==
  IF orders = <<>> THEN bookSet
  ELSE PlaceAll(PlaceOrder(bookSet, Head(orders)), Tail(orders))

\* the map getBooks has filled when its loop ends
BookSetOf(orders) == PlaceAll(<<>>, orders)

Orderings(n) == {p \in [1..n -> 1..n] : \A i, j \in 1..n : p[i] = p[j] => i = j}

\* getBooks turns the map into a slice by ranging over it: Go ranges over a
\* map in an unspecified order, so every order of the entries is a result
getBooks(orders) ==
  LET bookSet == BookSetOf(orders)
      n == Len(bookSet)
  IN {[i \in 1..n |-> bookSet[p[i]]] : p \in Orderings(n)}

\* --------------------------------------------------------------- arbitrage

\* what a collaborator's Balance(token) returns: an error, or a balance
BalanceResults ==
  {[err |-> TRUE, val |-> 0]} \cup {[err |-> FALSE, val |-> v] : v \in 0..MaxBalance}

\* Max that returns its first argument: the balance alone sizes the trade
MaxFirst(x, y, z) == x

\* Max with strict comparisons: of two equal greatest arguments neither is
\* found and z is returned
MaxStrict(x, y, z) ==
  IF x > y /\ x > z THEN x
  ELSE IF y > x /\ y > z THEN y
  ELSE z

\* Max returns the maximum of three big ints (matcher.go 320-328)
Max(x, y, z) ==
  IF x >= y /\ x >= z THEN x
  ELSE IF y >= x /\ y >= z THEN y
  ELSE z

\* Crosses with the test written as Cmp < 0: equal rates pass the gate
CrossesOrEqual(bid, ask) == RateCmp(bid, ask) >= 0

\* the prices overlap: the negation of bid.Rate().Cmp(ask.Rate()) <= 0
Crosses(bid, ask) == RateCmp(bid, ask) > 0

\* no iteration of the matching loop has run yet in this cycle
NoIter ==
  [kind |-> "none", book |-> 0, bid |-> NoOrder, ask |-> NoOrder, queries |-> 0,
   baseAmount |-> 0, quoteAmount |-> 0, quoteAsBase |-> 0, again |-> FALSE]

\* One iteration of the inner loop of arbitrage on books[b] (matcher.go
\* 237-313); rb and rq are what Atomic.Balance returns for base and quote if
\* it is asked.  kind names the branch taken, queries counts the calls of
\* Atomic.Balance, again says that the loop goes on with the same book.
Iteration(b, book, rb, rq) ==
  LET stop(kind, bid, ask, q) ==
        [NoIter EXCEPT !.kind = kind, !.book = b, !.bid = bid, !.ask = ask, !.queries = q]
  IN IF book.bids = <<>> THEN stop("nobid", NoOrder, NoOrder, 0)
     ELSE LET bid == HighestBid(book) IN
     IF book.asks = <<>> THEN stop("noask", bid, NoOrder, 0)
     ELSE LET ask == LowestAsk(book) IN
     IF ~Crosses(bid, ask) THEN stop("nocross", bid, ask, 0)
     ELSE IF bid.BuyToken # ask.SellToken THEN stop("basemismatch", bid, ask, 0)
     ELSE IF bid.SellToken # ask.BuyToken THEN stop("quotemismatch", bid, ask, 0)
     ELSE IF rb.err THEN stop("baseerr", bid, ask, 1)
     ELSE IF rq.err THEN stop("quoteerr", bid, ask, 2)
     ELSE LET baseAmount == Max(rb.val, bid.BuyAmount, ask.SellAmount)
              quoteAmount == Max(rq.val, bid.SellAmount, ask.BuyAmount)
          IN
     \* big.Int.Div panics when the divisor is zero
     IF ask.BuyAmount = 0
       THEN [stop("divzero", bid, ask, 2) EXCEPT
               !.baseAmount = baseAmount, !.quoteAmount = quoteAmount]
     ELSE LET quoteAsBase == (quoteAmount * ask.SellAmount) \div ask.BuyAmount
              sized(kind, again) ==
                [kind |-> kind, book |-> b, bid |-> bid, ask |-> ask, queries |-> 2,
                 baseAmount |-> baseAmount, quoteAmount |-> quoteAmount,
                 quoteAsBase |-> quoteAsBase, again |-> again]
          IN
     IF baseAmount = 0 /\ quoteAsBase = 0 THEN sized("zero", FALSE)
     ELSE IF baseAmount > quoteAsBase THEN sized("baseFirst", TRUE)
     ELSE sized("quoteFirst", TRUE)

BalanceError == [err |-> TRUE, val |-> 0]

\* what Atomic.Balance(base) may return in this iteration: it is called only
\* when the pair crosses and its tokens are aligned
BaseResults(b, book) ==
  IF Iteration(b, book, BalanceError, BalanceError).queries > 0
    THEN BalanceResults ELSE {BalanceError}

\* what Atomic.Balance(quote) may return: it is called only after
\* Atomic.Balance(base) has succeeded
QuoteResults(b, book, rb) ==
  IF Iteration(b, book, rb, BalanceError).queries > 1
    THEN BalanceResults ELSE {BalanceError}

\* the branches of an iteration that reach the execution step (308-312)
MatchedKinds == {"baseFirst", "quoteFirst"}

\* what the iteration logs through m.log, as events of the cycle
IterEvents(it) ==
  (IF it.queries > 0 THEN {"Atomic.Balance"} ELSE {})
  \cup (IF it.kind \in {"basemismatch", "quotemismatch"} THEN {"TokenMismatch"} ELSE {})
  \cup (IF it.kind \in {"baseerr", "quoteerr"} THEN {"BalanceUnavailable"} ELSE {})
  \cup (IF it.kind = "zero" THEN {"ZeroTradable"} ELSE {})

\* BookAfter with HighestBid and LowestAsk that return the best order and
\* leave it in the book
BookAfterPeek(book, it) == book

\* the book after the iteration: HighestBid and LowestAsk remove what they return
BookAfter(book, it) ==
  IF it.kind = "nobid" THEN book
  ELSE IF it.kind = "noask" THEN TakeBid(book)
  ELSE TakeAsk(TakeBid(book))

\* the twins the execution step of a matched iteration appends: the branches
\* at 308-312 are empty, nothing is appended to twins
Executed(it) == <<>>

\* ------------------------------------------------------------- aggregation

RECURSIVE TotalCost(_)
TotalCost(ts) == IF ts = <<>> THEN 0 ELSE Head(ts).Cost + TotalCost(Tail(ts))

\* AddChange with the amount stored in place of added
AddChangeOverwrite(changes, token, amount) ==
  IF token \in DOMAIN changes
    THEN [changes EXCEPT ![token] = amount]
    ELSE changes @@ (token :> amount)

\* changes[token] += amount, creating the entry at zero when it is missing
AddChange(changes, token, amount) ==
  IF token \in DOMAIN changes
    THEN [changes EXCEPT ![token] = @ + amount]
    ELSE changes @@ (token :> amount)

RECURSIVE ChangesFrom(_, _)
ChangesFrom(changes, ts) ==
  IF ts = <<>> THEN changes
  ELSE LET twin == Head(ts)
           first == AddChange(changes, twin.First.Token, twin.First.Amount)
       IN ChangesFrom(AddChange(first, twin.Second.Token, twin.Second.Amount), Tail(ts))

\* the map changes after the loop over the twins (matcher.go 131-152)
Changes(ts) == ChangesFrom(<<>>, ts)

\* what Wallet.Balance(token) returns: an error, or a balance that is only
\* printed
WalletResults ==
  {[err |-> TRUE, val |-> 0]} \cup {[err |-> FALSE, val |-> v] : v \in {0, 1}}

NoSummary ==
  [executed |-> 0, changes |-> <<>>, lines |-> <<>>, cost |-> 0, logged |-> FALSE]

\* ------------------------------------------------------------------ state

VARIABLES
  pc,         \* the loop goroutine: "start", "select", "cycle", "tickerStop",
              \* "closeDone", "exited", "crashed"
  step,       \* its position inside a cycle: "getBooks", "arbitrage",
              \* "aggregate"; "none" outside a cycle
  stopPc,     \* each caller of Stop: "idle", "send", "recv", "returned"
  stopMid,    \* whether the caller called Stop while a cycle was running
  ticker,     \* "none" before time.NewTicker, then "running", then "stopped"
  tickC,      \* ticks buffered in the channel ticker.C
  doneClosed, \* close(m.done) has happened
  inFlight,   \* cycles begun and not yet finished
  elapsed,    \* timer ticks fired since the running cycle began
  dropped,    \* those of them that found ticker.C full and were dropped
  venue,      \* the open orders the market holds
  books,      \* the slice of books of the running cycle
  bi,         \* index into books of the book arbitrage is working on
  twins,      \* the twins arbitrage has collected
  matched,    \* iterations of this cycle that reached the execution step
  last,       \* the latest iteration of the matching loop in this cycle
  events,     \* collaborator calls and log entries of the latest cycle
  summary     \* what the latest finished cycle logged at its end

vars ==
  <<pc, step, stopPc, stopMid, ticker, tickC, doneClosed, inFlight, elapsed, dropped,
    venue, books, bi, twins, matched, last, events, summary>>

engineVars == <<stopPc, stopMid, ticker, doneClosed>>
cycleVars == <<books, bi, twins, matched, last, events, summary>>

Callers == DOMAIN stopPc

\* markets the whole engine is run against: empty, a lone bid, a crossing
\* pair, a pair that does not cross, and a pair that crosses with nothing to trade
SampleVenues ==
  { <<>>,
    <<Order("A", "B", 1, 1)>>,
    <<Order("A", "B", 1, 2), Order("B", "A", 1, 1)>>,
    <<Order("A", "B", 2, 1), Order("B", "A", 1, 1)>>,
    <<Order("A", "B", 0, 1), Order("B", "A", 1, 0)>> }

\* NewMatcher has returned: m.done is open and go m.start() is launched
NewMatcher(callers, venues) ==
  /\ pc = "start"
  /\ step = "none"
  /\ stopPc = [c \in callers |-> "idle"]
  /\ stopMid = [c \in callers |-> FALSE]
  /\ ticker = "none"
  /\ tickC = 0
  /\ doneClosed = FALSE
  /\ inFlight = 0
  /\ elapsed = 0
  /\ dropped = 0
  /\ venue \in venues
  /\ books = <<>>
  /\ bi = 0
  /\ twins = <<>>
  /\ matched = 0
  /\ last = NoIter
  /\ events = {}
  /\ summary = NoSummary

Init == NewMatcher({1}, SampleVenues)

\* ----------------------------------------------------------- the goroutine

\* start: ticker := time.NewTicker(m.refresh), then m.run(m.done, ticker.C)
Start ==
  /\ pc = "start"
  /\ ticker' = "running"
  /\ pc' = "select"
  /\ UNCHANGED <<step, stopPc, stopMid, tickC, doneClosed, inFlight, elapsed, dropped,
                 venue>>
  /\ UNCHANGED cycleVars

\* Tick with a channel that queues every tick
TickQueued ==
  /\ ticker = "running"
  /\ pc = "cycle" => elapsed < MaxTicks
  /\ tickC' = tickC + 1
  /\ elapsed' = IF pc = "cycle" THEN elapsed + 1 ELSE elapsed
  /\ UNCHANGED <<pc, step, stopPc, stopMid, ticker, doneClosed, inFlight, dropped, venue>>
  /\ UNCHANGED cycleVars

\* The runtime timer fires.  The ticker sends on ticker.C without blocking:
\* a tick that finds the channel full is dropped.
Tick ==
  /\ ticker = "running"
  /\ pc = "cycle" => elapsed < MaxTicks
  /\ tickC' = IF tickC < TickerCap THEN tickC + 1 ELSE tickC
  /\ elapsed' = IF pc = "cycle" THEN elapsed + 1 ELSE elapsed
  /\ dropped' = IF pc = "cycle" /\ tickC >= TickerCap THEN dropped + 1 ELSE dropped
  /\ UNCHANGED <<pc, step, stopPc, stopMid, ticker, doneClosed, inFlight, venue>>
  /\ UNCHANGED cycleVars

\* SelectDone with a plain break, which leaves the select and not the loop
SelectDoneBreakSelect(c) ==
  /\ pc = "select"
  /\ stopPc[c] = "send"
  /\ ~doneClosed
  /\ stopPc' = [stopPc EXCEPT ![c] = "recv"]
  /\ UNCHANGED <<pc, step, stopMid, ticker, tickC, doneClosed, inFlight, elapsed, dropped,
                 venue>>
  /\ UNCHANGED cycleVars

\* select, case <-done: the send of caller c in Stop meets the receive; break Loop
SelectDone(c) ==
  /\ pc = "select"
  /\ stopPc[c] = "send"
  /\ ~doneClosed
  /\ stopPc' = [stopPc EXCEPT ![c] = "recv"]
  /\ pc' = "tickerStop"
  /\ UNCHANGED <<step, stopMid, ticker, tickC, doneClosed, inFlight, elapsed, dropped,
                 venue>>
  /\ UNCHANGED cycleVars

\* SelectRefresh with the cycle handed to a goroutine of its own: the loop is
\* back at the select at once
SelectRefreshAsync ==
  /\ pc = "select"
  /\ tickC > 0
  /\ tickC' = tickC - 1
  /\ step' = "getBooks"
  /\ inFlight' = inFlight + 1
  /\ UNCHANGED <<pc, stopPc, stopMid, ticker, doneClosed, elapsed, dropped, venue>>
  /\ UNCHANGED cycleVars

\* select, case <-refresh: a buffered tick is received and a cycle begins
SelectRefresh ==
  /\ pc = "select"
  /\ tickC > 0
  /\ tickC' = tickC - 1
  /\ pc' = "cycle"
  /\ step' = "getBooks"
  /\ inFlight' = inFlight + 1
  /\ elapsed' = 0
  /\ dropped' = 0
  /\ books' = <<>>
  /\ bi' = 0
  /\ twins' = <<>>
  /\ matched' = 0
  /\ last' = NoIter
  /\ events' = {}
  /\ UNCHANGED <<stopPc, stopMid, ticker, doneClosed, venue, summary>>

\* the cycle is over: back to the select
EndCycle ==
  /\ pc' = "select"
  /\ step' = "none"
  /\ inFlight' = inFlight - 1
  /\ elapsed' = 0
  /\ dropped' = 0
  /\ books' = <<>>
  /\ bi' = 0
  /\ twins' = twins
  /\ matched' = 0
  /\ last' = NoIter

\* EndCycle with a return in place of the continue: the run loop is left
EndLoop ==
  /\ pc' = "tickerStop"
  /\ step' = "none"
  /\ inFlight' = inFlight - 1
  /\ elapsed' = 0
  /\ dropped' = 0
  /\ books' = <<>>
  /\ bi' = 0
  /\ twins' = <<>>
  /\ matched' = 0
  /\ last' = NoIter

\* GetBooks with a market failure that ends the loop instead of the cycle
GetBooksFatal ==
  /\ pc = "cycle"
  /\ step = "getBooks"
  /\ \/ /\ events' = events \cup {"Orders", "MarketUnavailable"}
        /\ EndLoop
        /\ UNCHANGED summary
     \/ /\ \E bs \in getBooks(venue) : books' = bs
        /\ events' = events \cup {"Orders", "Books"}
        /\ step' = "arbitrage"
        /\ bi' = 1
        /\ UNCHANGED <<pc, inFlight, elapsed, dropped, twins, matched, last, summary>>
  /\ UNCHANGED <<tickC, venue>>
  /\ UNCHANGED engineVars

\* GetBooks with the error of market.Orders() ignored: the cycle goes on
\* with no books
GetBooksIgnoreErr ==
  /\ pc = "cycle"
  /\ step = "getBooks"
  /\ \/ /\ events' = events \cup {"Orders", "MarketUnavailable"}
        /\ books' = <<>>
     \/ /\ \E bs \in getBooks(venue) : books' = bs
        /\ events' = events \cup {"Orders", "Books"}
  /\ step' = "arbitrage"
  /\ bi' = 1
  /\ UNCHANGED <<pc, inFlight, elapsed, dropped, twins, matched, last, summary>>
  /\ UNCHANGED <<tickC, venue>>
  /\ UNCHANGED engineVars

\* books, err := m.getBooks(m.atomic), with the error check that follows it
GetBooks ==
  /\ pc = "cycle"
  /\ step = "getBooks"
  /\ \/ \* market.Orders() fails: the error is logged, continue
        /\ events' = events \cup {"Orders", "MarketUnavailable"}
        /\ EndCycle
        /\ UNCHANGED summary
     \/ \* market.Orders() returns the open orders
        /\ \E bs \in getBooks(venue) : books' = bs
        /\ events' = events \cup {"Orders", "Books"}
        /\ step' = "arbitrage"
        /\ bi' = 1
        /\ UNCHANGED <<pc, inFlight, elapsed, dropped, twins, matched, last, summary>>
  /\ UNCHANGED <<tickC, venue>>
  /\ UNCHANGED engineVars

\* the branches of an iteration that abandon the book with continue BookLoop
FaultKinds == {"basemismatch", "quotemismatch", "baseerr", "quoteerr", "zero"}

\* ArbIterate with a plain continue in place of continue BookLoop: after a
\* fault the inner loop goes on with the same book
ArbIterateStay ==
  /\ pc = "cycle"
  /\ step = "arbitrage"
  /\ bi <= Len(books)
  /\ \E rb \in BaseResults(bi, books[bi]) :
     \E rq \in QuoteResults(bi, books[bi], rb) :
       LET it == Iteration(bi, books[bi], rb, rq)
       IN /\ last' = it
          /\ books' = [books EXCEPT ![bi] = BookAfter(@, it)]
          /\ bi' = IF it.again \/ it.kind \in FaultKinds THEN bi ELSE bi + 1
          /\ twins' = IF it.kind \in MatchedKinds THEN twins \o Executed(it) ELSE twins
          /\ matched' = IF it.kind \in MatchedKinds THEN matched + 1 ELSE matched
          /\ events' = events \cup {"arbitrage"} \cup IterEvents(it)
          /\ pc' = IF it.kind = "divzero" THEN "crashed" ELSE pc
  /\ UNCHANGED <<step, tickC, inFlight, elapsed, dropped, venue, summary>>
  /\ UNCHANGED engineVars

\* one iteration of the matching loop of arbitrage on the current book
ArbIterate ==
  /\ pc = "cycle"
  /\ step = "arbitrage"
  /\ bi <= Len(books)
  /\ \E rb \in BaseResults(bi, books[bi]) :
     \E rq \in QuoteResults(bi, books[bi], rb) :
       LET it == Iteration(bi, books[bi], rb, rq)
       IN /\ last' = it
          /\ books' = [books EXCEPT ![bi] = BookAfter(@, it)]
          /\ bi' = IF it.again THEN bi ELSE bi + 1
          /\ twins' = IF it.kind \in MatchedKinds THEN twins \o Executed(it) ELSE twins
          /\ matched' = IF it.kind \in MatchedKinds THEN matched + 1 ELSE matched
          /\ events' = events \cup {"arbitrage"} \cup IterEvents(it)
          /\ pc' = IF it.kind = "divzero" THEN "crashed" ELSE pc
  /\ UNCHANGED <<step, tickC, inFlight, elapsed, dropped, venue, summary>>
  /\ UNCHANGED engineVars

\* arbitrage has ranged over every book: return twins, nil (the error that
\* run checks at 124-127 is always nil)
ArbReturn ==
  /\ pc = "cycle"
  /\ step = "arbitrage"
  /\ bi > Len(books)
  /\ step' = "aggregate"
  /\ events' = events \cup {"arbitrage"}
  /\ UNCHANGED <<pc, tickC, inFlight, elapsed, dropped, venue, books, bi, twins, matched,
                 last, summary>>
  /\ UNCHANGED engineVars

\* The rest of the cycle (matcher.go 129-169): total cost and per-token
\* changes, then one line per token whose Wallet.Balance succeeds, then the
\* total cost.
Aggregate ==
  /\ pc = "cycle"
  /\ step = "aggregate"
  /\ LET changes == Changes(twins)
     IN \E w \in [DOMAIN changes -> WalletResults] :
          LET shown == {t \in DOMAIN changes : ~w[t].err}
          IN /\ summary' = [executed |-> Len(twins),
                            changes |-> changes,
                            lines |-> [t \in shown |-> <<w[t].val, changes[t]>>],
                            cost |-> TotalCost(twins),
                            logged |-> TRUE]
             /\ events' = events \cup {"aggregate", "summary"}
                  \cup (IF DOMAIN changes # {} THEN {"Wallet.Balance"} ELSE {})
                  \cup (IF shown # DOMAIN changes THEN {"WalletUnavailable"} ELSE {})
  /\ EndCycle
  /\ UNCHANGED <<tickC, venue>>
  /\ UNCHANGED engineVars

\* start, after run has returned: ticker.Stop()
TickerStop ==
  /\ pc = "tickerStop"
  /\ ticker' = "stopped"
  /\ pc' = "closeDone"
  /\ UNCHANGED <<step, stopPc, stopMid, tickC, doneClosed, inFlight, elapsed, dropped,
                 venue>>
  /\ UNCHANGED cycleVars

\* CloseDone without the close: the goroutine ends with m.done left open
CloseDoneMissing ==
  /\ pc = "closeDone"
  /\ pc' = "exited"
  /\ UNCHANGED <<step, stopPc, stopMid, ticker, tickC, doneClosed, inFlight, elapsed,
                 dropped, venue>>
  /\ UNCHANGED cycleVars

\* start: close(m.done), and the goroutine ends
CloseDone ==
  /\ pc = "closeDone"
  /\ doneClosed' = TRUE
  /\ pc' = "exited"
  /\ UNCHANGED <<step, stopPc, stopMid, ticker, tickC, inFlight, elapsed, dropped, venue>>
  /\ UNCHANGED cycleVars

\* -------------------------------------------------------------------- Stop

\* caller c enters Stop and offers its send on m.done (unbuffered: the send
\* completes only in SelectDone, when the loop receives it)
StopCall(c) ==
  /\ stopPc[c] = "idle"
  /\ stopPc' = [stopPc EXCEPT ![c] = "send"]
  /\ stopMid' = [stopMid EXCEPT ![c] = (pc = "cycle")]
  /\ UNCHANGED <<pc, step, ticker, tickC, doneClosed, inFlight, elapsed, dropped, venue>>
  /\ UNCHANGED cycleVars

\* StopReturn without the wait for the acknowledgment: Stop returns as soon
\* as its signal has been taken
StopReturnEarly(c) ==
  /\ stopPc[c] = "recv"
  /\ stopPc' = [stopPc EXCEPT ![c] = "returned"]
  /\ UNCHANGED <<pc, step, stopMid, ticker, tickC, doneClosed, inFlight, elapsed, dropped,
                 venue>>
  /\ UNCHANGED cycleVars

\* Stop: <-m.done returns once the channel is closed, and Stop returns
StopReturn(c) ==
  /\ stopPc[c] = "recv"
  /\ doneClosed
  /\ stopPc' = [stopPc EXCEPT ![c] = "returned"]
  /\ UNCHANGED <<pc, step, stopMid, ticker, tickC, doneClosed, inFlight, elapsed, dropped,
                 venue>>
  /\ UNCHANGED cycleVars

\* ---------------------------------------------------------- specifications

\* the steps of the loop goroutine
Loop ==
  \/ Start
  \/ SelectRefresh
  \/ \E c \in Callers : SelectDone(c)
  \/ GetBooks
  \/ ArbIterate
  \/ ArbReturn
  \/ Aggregate
  \/ TickerStop
  \/ CloseDone

Next ==
  \/ Loop
  \/ Tick
  \/ \E c \in Callers : StopCall(c)
  \/ \E c \in Callers : StopReturn(c)

\* the engine with one caller of Stop
Spec == Init /\ [][Next]_vars

\* the loop goroutine is scheduled whenever it can take a step, and a caller
\* whose receive on m.done can complete is scheduled too; nothing makes the
\* timer fire
FairSpec ==
  /\ Spec
  /\ WF_vars(Loop)
  /\ WF_vars(StopReturn(1))

\* one cycle of the loop on its own, on every market within the bounds
CycleInit ==
  /\ pc = "cycle"
  /\ step = "getBooks"
  /\ stopPc = [c \in {1} |-> "idle"]
  /\ stopMid = [c \in {1} |-> FALSE]
  /\ ticker = "running"
  /\ tickC = 0
  /\ doneClosed = FALSE
  /\ inFlight = 1
  /\ elapsed = 0
  /\ dropped = 0
  /\ venue \in Venues
  /\ books = <<>>
  /\ bi = 0
  /\ twins = <<>>
  /\ matched = 0
  /\ last = NoIter
  /\ events = {}
  /\ summary = NoSummary

CycleNext ==
  \/ GetBooks
  \/ ArbIterate
  \/ ArbReturn
  \/ Aggregate

CycleSpec == CycleInit /\ [][CycleNext]_vars

\* ----------------------------------------------------------------- claims

Teardown == {"tickerStop", "closeDone", "exited"}

\* C1: when a call of Stop has returned, the run loop has exited, the ticker
\* is stopped, the done channel is closed and no cycle is in flight; a Stop
\* called in the middle of a cycle returns only after that cycle has ended
\* (with its summary logged, or abandoned at getBooks).
StopReturnsAfterExit ==
  \A c \in Callers :
    stopPc[c] = "returned" =>
      /\ pc = "exited"
      /\ ticker = "stopped"
      /\ doneClosed
      /\ step = "none"
      /\ inFlight = 0
      /\ stopMid[c] => events \cap {"summary", "MarketUnavailable"} # {}

\* C1 witness: Stop, called in the middle of a cycle, has returned after the
\* cycle logged its summary
StopMidCycleReturned ==
  \E c \in Callers :
    /\ stopPc[c] = "returned"
    /\ stopMid[c]
    /\ "summary" \in events
    /\ summary.logged

CycleErrors ==
  {"MarketUnavailable", "BalanceUnavailable", "TokenMismatch", "ZeroTradable",
   "WalletUnavailable"}

\* C2: a cycle only ever ends back at the select, whatever errors it has
\* met; the loop never crashes; and the loop leaves the select for the
\* teardown only by receiving the stop signal a caller of Stop sends.
LoopExitsOnlyOnStop ==
  [][ /\ pc = "cycle" => pc' \in {"cycle", "select"}
      /\ (pc = "cycle" /\ pc' # "cycle" /\ events' \cap CycleErrors # {}) =>
           (pc' = "select" /\ step' = "none")
      /\ pc' # "crashed"
      /\ (pc \notin Teardown /\ pc' \in Teardown) =>
           /\ pc = "select"
           /\ \E c \in Callers : stopPc[c] = "send" /\ stopPc'[c] = "recv"
    ]_vars

\* C2 witness: after a cycle in which Atomic.Balance failed, the loop waits
\* at the select
WaitingAfterBalanceError ==
  /\ pc = "select"
  /\ "BalanceUnavailable" \in events

\* C2, further cases that are reached: a market failure and a zero-tradable pair
WaitingAfterOtherErrors ==
  /\ pc = "select"
  /\ events \cap {"MarketUnavailable", "ZeroTradable"} # {}

StopOffered == \E c \in Callers : stopPc[c] = "send"
StopReceived == \E c \in Callers : stopPc[c] \in {"recv", "returned"}

\* C3 as claimed: once Stop has offered its stop signal, the loop begins no
\* new cycle.
NoCycleAfterStopOffered ==
  [][StopOffered => ~(pc = "select" /\ pc' = "cycle")]_vars

\* C3 as amended: Stop does not preempt a running cycle, and once the select
\* has received the stop signal the loop is in its teardown and begins no new
\* cycle, even with a tick pending.
NoCycleAfterStopReceived ==
  [][ /\ (StopOffered /\ pc = "cycle") => pc' \in {"cycle", "select"}
      /\ StopReceived' => (pc' \in Teardown /\ step' = "none")
    ]_vars

\* C3 witness: the stop signal has been received while a tick is pending
StopReceivedWithTickPending ==
  /\ StopReceived
  /\ tickC > 0
  /\ pc = "tickerStop"

\* C4 as claimed: under weak fairness of the loop goroutine, a Stop that has
\* offered its signal eventually returns.
StopEventuallyReturns ==
  (stopPc[1] = "send") ~> (stopPc[1] = "returned")

\* C4 as amended: Stop eventually returns when, besides, the select is
\* strongly fair to its stop case, i.e. a stop signal that is offered at
\* infinitely many selects is eventually the case the select chooses.
StopReturnsUnderFairSelect ==
  SF_vars(SelectDone(1)) => StopEventuallyReturns

\* C4 witness: Stop has returned although a tick was pending at the select
StopReturnedWithTickPending ==
  /\ stopPc[1] = "returned"
  /\ tickC > 0

\* C5: at most one cycle is in flight, a cycle is in flight exactly while
\* the loop goroutine is inside it, and none is during the teardown.
OneCycleAtATime ==
  /\ inFlight <= 1
  /\ (inFlight = 1) <=> (pc = "cycle")
  /\ (step # "none") <=> (pc = "cycle")
  /\ pc \in Teardown => inFlight = 0

\* C5 witness: the teardown closes the channel after a cycle has run
TeardownAfterCycle ==
  /\ pc = "closeDone"
  /\ summary.logged

\* C6 as claimed: of the ticks that elapse while a cycle runs, at most one
\* is dropped.
DropsAtMostOneTick == dropped <= 1

\* C6 as amended: of the ticks that elapse while a cycle runs, at most one
\* is kept (the first, buffered in ticker.C) and all the others are dropped;
\* so at most one cycle follows back-to-back.
KeepsAtMostOneTick ==
  /\ tickC <= 1
  /\ pc = "cycle" =>
       /\ tickC = (IF elapsed = 0 THEN 0 ELSE 1)
       /\ dropped = elapsed - tickC

\* C6 witness: three ticks have elapsed during a cycle, two were dropped
ThreeTicksInCycle ==
  /\ pc = "cycle"
  /\ elapsed = 3
  /\ dropped = 2
  /\ tickC = 1

\* C7: the step in which Market.Orders fails abandons the cycle: no book,
\* no arbitrage, no balance query, no aggregation, no summary, and the loop
\* is back at the select.
OrdersFailureAbandonsCycle ==
  [][ ("MarketUnavailable" \notin events /\ "MarketUnavailable" \in events') =>
        /\ events' = {"Orders", "MarketUnavailable"}
        /\ books' = <<>>
        /\ twins' = <<>>
        /\ last' = NoIter
        /\ summary' = summary
        /\ step' = "none"
        /\ inFlight' = 0
        /\ pc' = "select"
    ]_vars

\* C7 witness: the market failed in the latest cycle and the loop waits
WaitingAfterMarketError ==
  /\ pc = "select"
  /\ "MarketUnavailable" \in events
  /\ ~summary.logged

\* the books as getBooks has returned them, before arbitrage touches them
FreshBooks == pc = "cycle" /\ step = "arbitrage" /\ last.kind = "none"

Count(s, x) == Cardinality({k \in DOMAIN s : s[k] = x})
Range(s) == {s[k] : k \in DOMAIN s}
TokenPair(order) == <<order.BuyToken, order.SellToken>>

\* how often order x occurs in the books, on either side
CountInBooks(bs, x) ==
  Cardinality({ik \in (DOMAIN bs) \X (1..Len(venue)) :
                 ik[2] <= Len(bs[ik[1]].bids) /\ bs[ik[1]].bids[ik[2]] = x})
  + Cardinality({ik \in (DOMAIN bs) \X (1..Len(venue)) :
                 ik[2] <= Len(bs[ik[1]].asks) /\ bs[ik[1]].asks[ik[2]] = x})

\* every order of the market is in the books exactly as often as in the market
EveryOrderOnce(bs) ==
  \A x \in Orders : CountInBooks(bs, x) = Count(venue, x)

\* no two books are for the same unordered token pair
OneBookPerPair(bs) ==
  \A i, j \in DOMAIN bs :
    i # j => {bs[i].Base, bs[i].Quote} # {bs[j].Base, bs[j].Quote}

\* a book is oriented as the first order of the market for its pair
FirstSeenOrientation(bs) ==
  \A i \in DOMAIN bs :
    LET same == {k \in DOMAIN venue :
                   {venue[k].BuyToken, venue[k].SellToken} = {bs[i].Base, bs[i].Quote}}
    IN /\ same # {}
       /\ \E k \in same :
            /\ \A l \in same : k <= l
            /\ TokenPair(venue[k]) = <<bs[i].Base, bs[i].Quote>>

\* C8 as claimed: getBooks partitions the orders into books, one per
\* unordered pair, oriented as the first order seen; an order is a bid iff its
\* (buyToken, sellToken) is (Base, Quote) and an ask iff it is (Quote, Base).
BookPartition ==
  FreshBooks =>
    /\ EveryOrderOnce(books)
    /\ OneBookPerPair(books)
    /\ FirstSeenOrientation(books)
    /\ \A i \in DOMAIN books :
         \A x \in Range(books[i].bids) \cup Range(books[i].asks) :
           /\ x \in Range(books[i].bids) <=>
                TokenPair(x) = <<books[i].Base, books[i].Quote>>
           /\ x \in Range(books[i].asks) <=>
                TokenPair(x) = <<books[i].Quote, books[i].Base>>

\* C8 as amended: the same, but an order is an ask iff its (buyToken,
\* sellToken) is (Quote, Base) and is not (Base, Quote): an order that buys
\* and sells the same token has both orientations and is a bid.
BookPartitionBidFirst ==
  FreshBooks =>
    /\ EveryOrderOnce(books)
    /\ OneBookPerPair(books)
    /\ FirstSeenOrientation(books)
    /\ \A i \in DOMAIN books :
         \A x \in Range(books[i].bids) \cup Range(books[i].asks) :
           /\ x \in Range(books[i].bids) <=>
                TokenPair(x) = <<books[i].Base, books[i].Quote>>
           /\ x \in Range(books[i].asks) <=>
                /\ TokenPair(x) = <<books[i].Quote, books[i].Base>>
                /\ TokenPair(x) # <<books[i].Base, books[i].Quote>>

\* C8 witness: getBooks has returned a book with a bid and an ask
BookWithBidAndAsk ==
  /\ FreshBooks
  /\ \E i \in DOMAIN books : books[i].bids # <<>> /\ books[i].asks # <<>>

\* an iteration that has extracted a bid and an ask
PairExtracted == last.kind \notin {"none", "nobid", "noask"}

\* C9: an extracted pair with bid.rate <= ask.rate ends the work on its book
\* with no balance query and no twin; balances are queried, and the execution
\* step is reached, only for a pair with bid.rate > ask.rate.
StrictCrossingGate ==
  /\ (PairExtracted /\ RateCmp(last.bid, last.ask) <= 0) =>
       /\ last.kind = "nocross"
       /\ last.queries = 0
       /\ ~last.again
       /\ bi = last.book + 1
       /\ twins = <<>>
  /\ (last.queries > 0 \/ last.kind \in MatchedKinds) =>
       RateCmp(last.bid, last.ask) > 0
  /\ Len(twins) <= matched

\* C9 witness: a bid and an ask of equal, well-defined rates were extracted
\* and the book was left
EqualRatesLeaveBook ==
  /\ last.kind = "nocross"
  /\ last.bid.BuyAmount > 0
  /\ last.ask.BuyAmount > 0
  /\ RateCmp(last.bid, last.ask) = 0

\* C10 as claimed: when arbitrage returns, twins holds one entry per pair
\* that crossed, was aligned, got both balances and was not zero-tradable.
OneTwinPerMatch ==
  (pc = "cycle" /\ step = "aggregate") => Len(twins) = matched

\* ------------------------------------------------- concrete scenario 1

\* the market of scenario 1: a bid that buys 100 A for 50 B, then an ask
\* that sells 80 A for 30 B
Scenario1Venue == <<Order("A", "B", 100, 50), Order("B", "A", 30, 80)>>

\* the engine run against the market of scenario 1
Scenario1Init == NewMatcher({1}, {Scenario1Venue})

Scenario1Spec == Scenario1Init /\ [][Next]_vars

\* C11 as claimed: when arbitrage has worked through the book of scenario 1,
\* the pair was judged as crossing, one twin was produced, and the book has
\* neither a bid nor an ask left.
Scenario1ProducesTwin ==
  (pc = "cycle" /\ step = "aggregate") =>
    /\ matched = 1
    /\ Len(twins) = 1
    /\ \A i \in DOMAIN books : books[i].bids = <<>> /\ books[i].asks = <<>>

\* ------------------------------------------------------------ aggregation

\* most twins in the list the aggregation is run on
MaxTwins == 2

\* signed amounts of a fill (positive received, negative spent) and costs
FillAmounts == {-1, 2}
Costs == {1, 2}

Fills == [Token : Tokens, Amount : FillAmounts]
Twins == [First : Fills, Second : Fills, Cost : Costs]

\* the aggregation step of a cycle on its own, on every list of twins within
\* the bounds
AggInit ==
  /\ pc = "cycle"
  /\ step = "aggregate"
  /\ stopPc = [c \in {1} |-> "idle"]
  /\ stopMid = [c \in {1} |-> FALSE]
  /\ ticker = "running"
  /\ tickC = 0
  /\ doneClosed = FALSE
  /\ inFlight = 1
  /\ elapsed = 0
  /\ dropped = 0
  /\ venue = <<>>
  /\ books = <<>>
  /\ bi = 1
  /\ twins \in SeqsUpTo(Twins, MaxTwins)
  /\ matched = 0
  /\ last = NoIter
  /\ events = {"Orders", "Books", "arbitrage"}
  /\ summary = NoSummary

AggNext == Aggregate

AggSpec == AggInit /\ [][AggNext]_vars

\* the fills of a list of twins, First and Second of each
RECURSIVE FillsOf(_)
FillsOf(ts) ==
  IF ts = <<>> THEN <<>> ELSE <<Head(ts).First, Head(ts).Second>> \o FillsOf(Tail(ts))

\* the sum of the amounts of the fills whose token is t
RECURSIVE SumFor(_, _)
SumFor(fs, t) ==
  IF fs = <<>> THEN 0
  ELSE (IF Head(fs).Token = t THEN Head(fs).Amount ELSE 0) + SumFor(Tail(fs), t)

RECURSIVE SumCost(_, _)
SumCost(ts, k) == IF k = 0 THEN 0 ELSE ts[k].Cost + SumCost(ts, k - 1)

\* C12: when a cycle has logged its summary, the changes map has an entry
\* exactly for the tokens named by a fill of a twin, each entry is the sum of
\* the signed amounts of the fills of that token, every line printed shows
\* the entry of its token, and the total cost is the sum of the twins' costs.
AggregationMatchesFills ==
  (pc = "select" /\ summary.logged) =>
    LET fs == FillsOf(twins)
    IN /\ DOMAIN summary.changes = {fs[k].Token : k \in DOMAIN fs}
       /\ \A t \in DOMAIN summary.changes : summary.changes[t] = SumFor(fs, t)
       /\ DOMAIN summary.lines \subseteq DOMAIN summary.changes
       /\ \A t \in DOMAIN summary.lines : summary.lines[t][2] = summary.changes[t]
       /\ summary.cost = SumCost(twins, Len(twins))
       /\ summary.executed = Len(twins)

\* C12 witness: a summary was logged for two twins, one of which has both
\* fills in the same token, while a token of no twin has no entry
SameTokenTwinAggregated ==
  /\ pc = "select"
  /\ summary.logged
  /\ Len(twins) = 2
  /\ \E k \in DOMAIN twins : twins[k].First.Token = twins[k].Second.Token
  /\ DOMAIN summary.changes # Tokens
  /\ DOMAIN summary.lines = DOMAIN summary.changes

\* ------------------------------------------------------- zero buy amounts

\* the orders a book holds, on either side
OrdersIn(book) == Range(book.bids) \cup Range(book.asks)

\* C13 as claimed: once getBooks has run, no book holds an order whose
\* buyAmount is zero, and arbitrage never extracts such an order to compute
\* its rate or to divide by its buyAmount.
NoZeroBuyAmountInBooks ==
  /\ (pc = "cycle" /\ step = "arbitrage") =>
       \A i \in DOMAIN books : \A x \in OrdersIn(books[i]) : x.BuyAmount > 0
  /\ PairExtracted => (last.bid.BuyAmount > 0 /\ last.ask.BuyAmount > 0)

\* ------------------------------------------------- arbitrage on any books

\* bids and asks offered to a book of base A and quote B: orders of the pair,
\* orders with nothing to buy or to sell, and asks of other token pairs
ArbBids == {Order("A", "B", 1, 2), Order("A", "B", 2, 2), Order("A", "B", 0, 1)}
ArbAsks ==
  {Order("B", "A", 1, 1), Order("B", "A", 1, 0), Order("B", "B", 1, 1), Order("A", "A", 1, 1)}

RECURSIVE AddBids(_, _)
AddBids(book, os) ==
  IF os = {} THEN book
  ELSE LET x == CHOOSE o \in os : TRUE IN AddBids(AddBid(book, x), os \ {x})
RECURSIVE AddAsks(_, _)
AddAsks(book, os) ==
  IF os = {} THEN book
  ELSE LET x == CHOOSE o \in os : TRUE IN AddAsks(AddAsk(book, x), os \ {x})

\* every book that holds some of these bids and some of these asks
ArbBooks ==
  {AddAsks(AddBids(NewBook("A", "B"), bs), as) : bs \in SUBSET ArbBids, as \in SUBSET ArbAsks}

\* a book of one crossing, token-aligned pair
GoodBook == AddAsk(AddBid(NewBook("A", "B"), Order("A", "B", 1, 2)), Order("B", "A", 1, 1))

\* arbitrage(books) on its own: any book, before or after the good book
ArbInit ==
  /\ pc = "cycle"
  /\ step = "arbitrage"
  /\ stopPc = [c \in {1} |-> "idle"]
  /\ stopMid = [c \in {1} |-> FALSE]
  /\ ticker = "running"
  /\ tickC = 0
  /\ doneClosed = FALSE
  /\ inFlight = 1
  /\ elapsed = 0
  /\ dropped = 0
  /\ venue = <<>>
  /\ \E b \in ArbBooks : books \in {<<b, GoodBook>>, <<GoodBook, b>>}
  /\ bi = 1
  /\ twins = <<>>
  /\ matched = 0
  /\ last = NoIter
  /\ events = {"Orders", "Books"}
  /\ summary = NoSummary

ArbNext ==
  \/ ArbIterate
  \/ ArbReturn
  \/ Aggregate

\* arbitrage and the aggregation are straight-line code of one goroutine:
\* a step that can be taken is taken
ArbSpec == ArbInit /\ [][ArbNext]_vars /\ WF_vars(ArbNext)

\* the latest iteration abandoned its book
AfterFault == pc = "cycle" /\ step = "arbitrage" /\ last.kind \in FaultKinds

\* C14: after a token mismatch, a failure of Atomic.Balance or the
\* zero-tradable condition the loop is at the next book; from then on the
\* abandoned book is left as it is, a further iteration is on a later book,
\* and no matched pair is counted for the abandoned one; the cycle neither
\* crashes nor ends before the aggregation; every later book gets its
\* iteration and the summary of the cycle is logged.
FaultIsolation ==
  /\ [](AfterFault => bi = last.book + 1)
  /\ [][AfterFault =>
          /\ books'[last.book] = books[last.book]
          /\ last' # last => last'.book > last.book
          /\ pc' = "cycle"
          /\ step' \in {"arbitrage", "aggregate"}
          /\ twins' = twins \/ last'.book > last.book]_vars
  /\ (AfterFault /\ last.book < Len(books)) ~> (last.book = Len(books))
  /\ AfterFault ~> summary.logged

\* C14 witness: the first book was abandoned on a token mismatch while it
\* still held a bid and an ask, and the second book has had its iteration
MismatchedBookLeftBehind ==
  /\ pc = "cycle"
  /\ step = "arbitrage"
  /\ last.book = 2
  /\ last.kind \in MatchedKinds
  /\ books[1].bids # <<>>
  /\ books[1].asks # <<>>
  /\ "TokenMismatch" \in events

\* ------------------------------------------------------ loop termination

\* most orders of one token pair the market returns
MaxLoopOrders == 4

\* orders of one token pair: bids of rate 2 and 1, asks of rate 1/2 and 1
\* (for a book of base A and quote B)
LoopOrders ==
  {Order("A", "B", 1, 2), Order("A", "B", 2, 2), Order("B", "A", 2, 1), Order("B", "A", 1, 1)}

\* one cycle on a market that holds several orders of the same pair
LoopInit ==
  /\ pc = "cycle"
  /\ step = "getBooks"
  /\ stopPc = [c \in {1} |-> "idle"]
  /\ stopMid = [c \in {1} |-> FALSE]
  /\ ticker = "running"
  /\ tickC = 0
  /\ doneClosed = FALSE
  /\ inFlight = 1
  /\ elapsed = 0
  /\ dropped = 0
  /\ venue \in SeqsUpTo(LoopOrders, MaxLoopOrders)
  /\ books = <<>>
  /\ bi = 0
  /\ twins = <<>>
  /\ matched = 0
  /\ last = NoIter
  /\ events = {}
  /\ summary = NoSummary

\* the cycle is straight-line code of one goroutine: a step that can be
\* taken is taken
LoopSpec == LoopInit /\ [][CycleNext]_vars /\ WF_vars(CycleNext)

Min(a, b) == IF a <= b THEN a ELSE b

\* the book books[b] as getBooks built it, before any extraction
InitialBook(b) ==
  LET bookSet == BookSetOf(venue)
  IN bookSet[CHOOSE j \in Lookup(bookSet, BookKey(books[b])) : TRUE]

\* iterations run so far on the book of the latest iteration: every iteration
\* but one that found no bid has removed a bid
IterationsOnBook ==
  (Len(InitialBook(last.book).bids) - Len(books[last.book].bids))
    + (IF last.kind = "nobid" THEN 1 ELSE 0)

IterationBound ==
  (pc = "cycle" /\ step = "arbitrage" /\ last.kind # "none") =>
    IterationsOnBook <=
      Min(Len(InitialBook(last.book).bids), Len(InitialBook(last.book).asks)) + 1

\* what is left to do from book k on: one stop for each book, and its orders
RECURSIVE RemainingWork(_, _)
RemainingWork(bs, k) ==
  IF k > Len(bs) THEN 0
  ELSE 1 + Len(bs[k].bids) + Len(bs[k].asks) + RemainingWork(bs, k + 1)

\* C15: an iteration of the matching loop either stops its book or removes
\* one bid and one ask from it and goes on with it; what is left to do gets
\* strictly less with every iteration; a book has had at most
\* min(#bids, #asks) + 1 iterations; and arbitrage returns.
LoopTerminates ==
  /\ [][(pc = "cycle" /\ step = "arbitrage" /\ step' = "arbitrage") =>
          /\ \/ bi' = bi + 1 /\ ~last'.again
             \/ /\ bi' = bi
                /\ last'.again
                /\ Len(books'[bi].bids) = Len(books[bi].bids) - 1
                /\ Len(books'[bi].asks) = Len(books[bi].asks) - 1
          /\ RemainingWork(books', bi') < RemainingWork(books, bi)]_vars
  /\ []IterationBound
  /\ (pc = "cycle" /\ step = "arbitrage") ~> (step = "aggregate")

\* C15 witness: a book of two bids and two asks has had three iterations,
\* two that matched a pair and one that found no order left
ThreeIterationsOnBook ==
  /\ pc = "cycle"
  /\ step = "arbitrage"
  /\ last.kind = "nobid"
  /\ IterationsOnBook = 3
  /\ Len(InitialBook(last.book).bids) = 2
  /\ Len(InitialBook(last.book).asks) = 2

\* ------------------------------------------------------ monotonic frontier

\* C16: when the loop has left a book because the extracted bid and ask do
\* not cross, no bid that remains in the book has a rate greater than the
\* rate of an ask that remains in it.
FrontierComplete ==
  (pc = "cycle" /\ step = "arbitrage" /\ last.kind = "nocross") =>
    \A x \in Range(books[last.book].bids) :
      \A y \in Range(books[last.book].asks) : RateCmp(x, y) <= 0

\* C16 witness: the loop has left a book on a pair that does not cross while
\* the book still holds a bid and an ask, and the two have different rates
NonCrossingRestLeft ==
  /\ pc = "cycle"
  /\ step = "arbitrage"
  /\ last.kind = "nocross"
  /\ \E x \in Range(books[last.book].bids) :
       \E y \in Range(books[last.book].asks) : RateCmp(x, y) < 0

\* ------------------------------------------------------------------ sizing

\* the greatest element of a set of numbers
Greatest(S) == CHOOSE m \in S : \A e \in S : m >= e

\* the branches of an iteration that have computed the candidates
SizedKinds == {"zero", "baseFirst", "quoteFirst"}

\* C17: whatever Atomic.Balance returns for the pair at the head of the
\* current book, if the iteration gets to the sizing, its base candidate is
\* the greatest of the base balance, bid.BuyAmount and ask.SellAmount and its
\* quote candidate the greatest of the quote balance, bid.SellAmount and
\* ask.BuyAmount; and Max returns one of its arguments, not less than any.
SizingIsGreatest ==
  /\ \A x, y, z \in 0..MaxBalance :
       Max(x, y, z) \in {x, y, z} /\ Max(x, y, z) >= x /\ Max(x, y, z) >= y /\ Max(x, y, z) >= z
  /\ (pc = "cycle" /\ step = "arbitrage" /\ bi <= Len(books)) =>
       \A rb, rq \in BalanceResults :
         LET it == Iteration(bi, books[bi], rb, rq)
         IN it.kind \in SizedKinds =>
              /\ it.baseAmount = Greatest({rb.val, it.bid.BuyAmount, it.ask.SellAmount})
              /\ it.quoteAmount = Greatest({rq.val, it.bid.SellAmount, it.ask.BuyAmount})

\* C17 witness: a pair was sized with the balance as the base candidate and
\* with a tie between bid.SellAmount and ask.BuyAmount for the quote one
SizedByBalanceAndTie ==
  /\ pc = "cycle"
  /\ step = "arbitrage"
  /\ last.kind \in MatchedKinds
  /\ last.baseAmount > last.bid.BuyAmount
  /\ last.baseAmount > last.ask.SellAmount
  /\ last.quoteAmount = last.bid.SellAmount
  /\ last.quoteAmount = last.ask.BuyAmount

\* -------------------------------------------------------- token alignment

\* C19: in a cycle, whose books getBooks has built, every extracted pair has
\* bid.BuyToken = ask.SellToken and bid.SellToken = ask.BuyToken, and no
\* iteration takes a token mismatch branch.
TokensAligned ==
  /\ PairExtracted =>
       /\ last.bid.BuyToken = last.ask.SellToken
       /\ last.bid.SellToken = last.ask.BuyToken
  /\ last.kind \notin {"basemismatch", "quotemismatch"}
  /\ "TokenMismatch" \notin events

\* C19 witness: a crossing pair of a book of two different tokens has passed
\* the alignment check and the base balance was asked for
AlignedPairPassedCheck ==
  /\ pc = "cycle"
  /\ step = "arbitrage"
  /\ PairExtracted
  /\ last.queries > 0
  /\ last.bid.BuyToken # last.bid.SellToken

\* ------------------------------------------------------------ zero tradable

\* the market holds no order with BuyAmount = 0
AllBuyAmountsPositive == \A k \in DOMAIN venue : venue[k].BuyAmount > 0

\* C20: in a cycle on orders that all have BuyAmount > 0, no iteration takes
\* the zero-tradable branch, whatever Atomic.Balance returns, and the base
\* candidate of a sized pair is at least bid.BuyAmount, which is positive.
ZeroTradableUnreachable ==
  AllBuyAmountsPositive =>
    /\ last.kind # "zero"
    /\ "ZeroTradable" \notin events
    /\ last.kind \in SizedKinds =>
         (last.baseAmount >= last.bid.BuyAmount /\ last.bid.BuyAmount > 0)
    /\ (pc = "cycle" /\ step = "arbitrage" /\ bi <= Len(books)) =>
         \A rb, rq \in BalanceResults : Iteration(bi, books[bi], rb, rq).kind # "zero"

\* C20 witness: every order has BuyAmount > 0, and a pair was sized whose
\* quoteAsBase is zero and whose base candidate is no more than bid.BuyAmount
PositiveBidKeepsBook ==
  /\ AllBuyAmountsPositive
  /\ pc = "cycle"
  /\ step = "arbitrage"
  /\ last.kind \in MatchedKinds
  /\ last.quoteAsBase = 0
  /\ last.baseAmount = last.bid.BuyAmount

\* ------------------------------------------------------ Stop, more than once

\* Two callers of Stop are blocked on the unbuffered m.done, c in its send
\* and d in its receive: the channel hands c's value to d.  d's Stop returns
\* and c goes on to its own receive.
StopHandoff(c, d) ==
  /\ c # d
  /\ stopPc[c] = "send"
  /\ stopPc[d] = "recv"
  /\ ~doneClosed
  /\ stopPc' = [stopPc EXCEPT ![c] = "recv", ![d] = "returned"]
  /\ UNCHANGED <<pc, step, stopMid, ticker, tickC, doneClosed, inFlight, elapsed, dropped,
                 venue>>
  /\ UNCHANGED cycleVars

\* The send of caller c finds m.done closed, or is pending when it is
\* closed: the Go runtime panics with "send on closed channel".
StopPanic(c) ==
  /\ stopPc[c] = "send"
  /\ doneClosed
  /\ stopPc' = [stopPc EXCEPT ![c] = "panicked"]
  /\ UNCHANGED <<pc, step, stopMid, ticker, tickC, doneClosed, inFlight, elapsed, dropped,
                 venue>>
  /\ UNCHANGED cycleVars

\* one engine and two calls of Stop, which may overlap or follow one another
TwoCallersInit == NewMatcher({1, 2}, {<<Order("A", "B", 1, 2), Order("B", "A", 1, 1)>>})

TwoCallersNext ==
  \/ Next
  \/ \E c, d \in Callers : StopHandoff(c, d)
  \/ \E c \in Callers : StopPanic(c)

TwoCallersSpec == TwoCallersInit /\ [][TwoCallersNext]_vars

\* C18 as claimed: with more than one call of Stop on the same engine, a
\* call has returned only when the goroutine has stopped the ticker and
\* closed m.done, and no call panics on a send to the closed m.done.
StopSafeWhenRepeated ==
  \A c \in Callers :
    /\ stopPc[c] = "returned" => (pc = "exited" /\ ticker = "stopped" /\ doneClosed)
    /\ stopPc[c] # "panicked"

====
